---------------------------- MODULE Spec2Model ----------------------------
(***************************************************************************)
(* A model of the two command line tools of DSP-in-C:                      *)
(*   wavgen.c     the waveform generator (16-bit PCM, mono)                *)
(*   wavproc01.c  the processor (gain and one-pole low-pass)               *)
(* Single-precision arithmetic is modelled exactly (round to nearest,      *)
(* ties to even) on values m * 2^e; 32-bit unsigned values are kept as two *)
(* 16-bit halves so that every wrap of the C code is a wrap of the model.  *)
(***************************************************************************)
EXTENDS Integers, Sequences, FiniteSets, TLC

VARIABLES
    \* the sample codec of wavproc01.c, driven alone
    cpc, cs, cx, cy,
    \* wavgen.c: main's arguments and locals, and the output file
    gpc, argc, mode, sample_rate, seconds, f1, amp, f2, num_samples, n,
    phase, outCreated, outBytes, outErr, gstatus,
    \* wavproc01.c: main's arguments and locals, the input stream fin and
    \* the output file fout
    ppc, pargc, pmode, finBytes, finOpen, finPos, info, got_fmt, got_data,
    foutCreated, foutBytes, g, y1, pn, pstatus,
    \* history: the description the input file was built from, the highest
    \* offset read_wav_header has read to, and where it began to read chunks
    inDesc, scanEnd, chunkReads

codecVars == <<cpc, cs, cx, cy>>
genVars == <<gpc, argc, mode, sample_rate, seconds, f1, amp, f2, num_samples, n,
             phase, outCreated, outBytes, outErr, gstatus>>
procVars == <<ppc, pargc, pmode, finBytes, finOpen, finPos, info, got_fmt,
              got_data, foutCreated, foutBytes, g, y1, pn, pstatus,
              inDesc, scanEnd, chunkReads>>
vars == <<codecVars, genVars, procVars>>

----------------------------------------------------------------------------
(* Single-precision floating point.                                        *)
(* A finite value is [nan |-> FALSE, m, e] and stands for m * 2^e, with    *)
(* m = 0 /\ e = 0, or 2^23 <= |m| < 2^24 (a 24-bit significand).           *)

Abs(i) == IF i < 0 THEN -i ELSE i
Sgn(i) == IF i < 0 THEN -1 ELSE 1

MantLo == 2^23
MantHi == 2^24

NaN == [nan |-> TRUE, m |-> 0, e |-> 0]
Fin(m, e) == [nan |-> FALSE, m |-> m, e |-> e]
FZero == Fin(0, 0)

\* the float with the value m * 2^e, for 0 < |m| < 2^24 (no rounding needed)
RECURSIVE Normal(_, _)
Normal(m, e) ==
    IF m = 0 THEN FZero
    ELSE IF Abs(m) >= MantLo THEN Fin(m, e)
    ELSE Normal(2 * m, e - 1)

\* (float)s for a 16-bit integer: exact
IntToFloat(s) == Normal(s, 0)

FOne == Normal(1, 0)
FMinusOne == Normal(-1, 0)

\* x > y and x < y on floats; every comparison with a NaN is false
FPos(x) == ~x.nan /\ x.m > 0
FNeg(x) == ~x.nan /\ x.m < 0
FMagGt(x, y) ==     \* |x| > |y|, both finite
    IF y.m = 0 THEN x.m # 0
    ELSE IF x.m = 0 THEN FALSE
    ELSE x.e > y.e \/ (x.e = y.e /\ Abs(x.m) > Abs(y.m))
FGt(x, y) ==
    /\ ~x.nan /\ ~y.nan
    /\ IF Sgn(x.m) # Sgn(y.m) \/ x.m = 0 \/ y.m = 0
       THEN (x.m > 0 /\ y.m <= 0) \/ (x.m = 0 /\ y.m < 0)
       ELSE IF x.m > 0 THEN FMagGt(x, y) ELSE FMagGt(y, x)
FLt(x, y) == FGt(y, x)

\* round a significand q with remainder r out of d to nearest, ties to even
RoundEven(q, r, d) ==
    IF 2 * r > d \/ (2 * r = d /\ q % 2 = 1) THEN q + 1 ELSE q

\* the rounded significand may reach 2^24: renormalise
Renorm(sign, q, e) ==
    IF q >= MantHi THEN Fin(sign * (q \div 2), e + 1) ELSE Fin(sign * q, e)

\* binary long division: the quotient bits of r/d until 24 are significant
RECURSIVE DivBits(_, _, _, _)
DivBits(q, r, d, e) ==
    IF q >= MantLo THEN <<q, r, e>>
    ELSE LET b == IF 2 * r >= d THEN 1 ELSE 0
         IN  DivBits(2 * q + b, 2 * r - b * d, d, e - 1)

\* (float)a / (float)d for integers |a| < 2^16, 0 < d < 2^16: the correctly
\* rounded quotient
FDivInt(a, d) ==
    IF a = 0 THEN FZero
    ELSE LET t == DivBits(Abs(a) \div d, Abs(a) % d, d, 0)
         IN  Renorm(Sgn(a), RoundEven(t[1], t[2], d), t[3])

\* x * y, correctly rounded.  The 48-bit product of the significands is
\* formed in 12-bit limbs and kept as hi * 2^24 + lo.
Limb == 2^12
FMul(x, y) ==
    IF x.nan \/ y.nan THEN NaN
    ELSE IF x.m = 0 \/ y.m = 0 THEN FZero
    ELSE LET a1 == Abs(x.m) \div Limb
             a0 == Abs(x.m) % Limb
             b1 == Abs(y.m) \div Limb
             b0 == Abs(y.m) % Limb
             cross == a1 * b0 + a0 * b1
             low == a0 * b0 + (cross % Limb) * Limb
             lo == low % MantHi
             hi == a1 * b1 + cross \div Limb + low \div MantHi
             sign == Sgn(x.m) * Sgn(y.m)
             e == x.e + y.e
         IN  IF hi >= MantLo
             THEN Renorm(sign, RoundEven(hi, lo, MantHi), e + 24)
             ELSE Renorm(sign,
                         RoundEven(2 * hi + lo \div MantLo, lo % MantLo, MantLo),
                         e + 23)

\* lrintf(x) for finite |x| < 2^24: nearest integer, ties to even (the
\* default rounding mode)
Pow2(k) == 2^k

lrintf(x) ==
    IF x.m = 0 THEN 0
    ELSE IF x.e >= 0 THEN x.m * Pow2(x.e)
    ELSE IF -x.e > 25 THEN 0
    ELSE LET d == Pow2(-x.e)
         IN  Sgn(x.m) * RoundEven(Abs(x.m) \div d, Abs(x.m) % d, d)

----------------------------------------------------------------------------
(* The sample codec of wavproc01.c                                         *)

S16Min == -32768
S16Max == 32767
Int16 == S16Min .. S16Max
Scale == 32767

Scalef == IntToFloat(Scale)

\* a decoding without the case of -32768
s16_to_float_plain(s) == FDivInt(s, Scale)

s16_to_float(s) ==
    IF s = S16Min THEN FMinusOne ELSE FDivInt(s, Scale)

\* what lrintf gives for a NaN is unspecified (C11 7.12.9.5): common
\* targets return LONG_MIN, LONG_MAX or 0 for it.  In wavproc01.c the long
\* goes straight to the clamp.
NaNOutcomes == {S16Min, 0, S16Max}
\* In wavgen.c it is first narrowed to int32_t, which turns a 64-bit
\* LONG_MIN into 0 and a 64-bit LONG_MAX into -1 and keeps a 32-bit one.
GenNaNOutcomes == {S16Min, -1, 0, S16Max}

ClampS16(v) == IF v > S16Max THEN S16Max ELSE IF v < S16Min THEN S16Min ELSE v

ClampUnit(x) ==
    IF FGt(x, FOne) THEN FOne ELSE IF FLt(x, FMinusOne) THEN FMinusOne ELSE x

\* the set of values float_to_s16(x) can return: one value unless x is a NaN
float_to_s16(x) ==
    IF x.nan THEN NaNOutcomes
    ELSE {ClampS16(lrintf(FMul(ClampUnit(x), Scalef)))}

----------------------------------------------------------------------------
(* 32-bit unsigned values and the wider values they are cut from.          *)
(* [hi, lo] stands for hi * 2^16 + lo with 0 <= lo < 2^16; a uint32_t has  *)
(* hi < 2^16 as well.                                                      *)

Half == 2^16

Wide(hi, lo) == [hi |-> hi, lo |-> lo]
WideOf(i) == Wide(i \div Half, i % Half)            \* 0 <= i < 2^31
WEq(a, b) == a.hi = b.hi /\ a.lo = b.lo
WLt(a, b) == a.hi < b.hi \/ (a.hi = b.hi /\ a.lo < b.lo)
WZero == Wide(0, 0)

\* (uint32_t)w: the value modulo 2^32
U32(w) == Wide(w.hi % Half, w.lo)
IsU32(w) == w.hi < Half

WAddInt(w, k) ==                                    \* w + k, 0 <= k < 2^15
    Wide(w.hi + (w.lo + k) \div Half, (w.lo + k) % Half)
WMulInt(w, k) ==                                    \* w * k, 0 <= k < 2^15
    Wide(w.hi * k + (w.lo * k) \div Half, (w.lo * k) % Half)
WHalf(w) ==                                         \* w / 2, rounded down
    Wide(w.hi \div 2, (w.hi % 2) * (Half \div 2) + w.lo \div 2)

\* the bytes fwrite is given by write_u16_le and write_u32_le
Bytes16(v) == <<v % 256, v \div 256>>               \* 0 <= v < 2^16
Bytes32(w) == Bytes16(w.lo) \o Bytes16(w.hi)        \* a uint32_t

\* (uint16_t)s for an int16_t s
AsU16(s) == IF s < 0 THEN s + Half ELSE s
\* (int16_t)v for a uint16_t v
AsS16(v) == IF v >= Half \div 2 THEN v - Half ELSE v

RIFF == <<82, 73, 70, 70>>
WAVE == <<87, 65, 86, 69>>
FMT  == <<102, 109, 116, 32>>
DATA == <<100, 97, 116, 97>>

----------------------------------------------------------------------------
(* wavgen.c                                                                *)

GenModes == {"sine", "noise", "impulse", "silence", "chirp"}

MinRate == 8000
MaxRate == 192000

\* llround(seconds * (double)sample_rate) for seconds = [m, e] > 0 standing
\* for m * 2^e: the product m * sample_rate * 2^e is exact in double
\* precision for the arguments drawn here; halves round away from zero
llround_product(secs, rate) ==
    LET p == secs.m * rate
    IN  IF secs.e >= 0
        THEN LET low == (p % Half) * Pow2(secs.e)
             IN  Wide((p \div Half) * Pow2(secs.e) + low \div Half, low % Half)
        ELSE LET d == Pow2(-secs.e)
             IN  WideOf(p \div d + (IF 2 * (p % d) >= d THEN 1 ELSE 0))

\* uint32_t num_samples = (uint32_t)llround(seconds * (double)sample_rate)
NumSamples(secs, rate) == U32(llround_product(secs, rate))

\* the 44 bytes write_wav_header hands to fwrite, in order
write_wav_header(rate, nsamples) ==
    LET num_channels == 1
        bits_per_sample == 16
        audio_format == 1
        block_align == num_channels * (bits_per_sample \div 8)
        byte_rate == U32(WMulInt(WideOf(rate), block_align))
        data_bytes == U32(WMulInt(nsamples, block_align))
    IN  RIFF \o Bytes32(U32(WAddInt(data_bytes, 36))) \o WAVE
        \o FMT \o Bytes32(WideOf(16))
        \o Bytes16(audio_format) \o Bytes16(num_channels)
        \o Bytes32(WideOf(rate)) \o Bytes32(byte_rate)
        \o Bytes16(block_align) \o Bytes16(bits_per_sample)
        \o DATA \o Bytes32(data_bytes)

HeaderLen == 44

\* the values amp * r can take for r in [-1, 1], among these few floats
Grid == {FZero, Normal(1, -16), Normal(1, -1), Normal(-1, -1),
         FOne, FMinusOne, Normal(3, -1), Normal(-2, 0)}
SignalValues(a) ==
    IF a.nan THEN {NaN, FZero}
    ELSE {x \in Grid : ~FMagGt(x, a)}

\* float x of one loop iteration, by mode.  sin(phase) is not computed:
\* where the phase is 0 the product is amp * 0, elsewhere any value of
\* magnitude at most |amp| may come out; rand() gives any r in [-1, 1].
SampleValues(md, k, a, freq) ==
    CASE md = "sine"    -> IF k = 0 \/ freq = 0 THEN {FMul(a, FZero)}
                           ELSE SignalValues(a)
      [] md = "noise"   -> SignalValues(a)
      [] md = "impulse" -> IF k = 0 THEN {a} ELSE {FZero}
      [] md = "silence" -> {FZero}
      [] md = "chirp"   -> IF k = 0 THEN {FMul(a, FZero)} ELSE SignalValues(a)

\* float_to_s16 of wavgen.c: the same steps as in wavproc01.c, through an
\* int32_t
gen_float_to_s16(x) ==
    IF x.nan THEN GenNaNOutcomes
    ELSE {ClampS16(lrintf(FMul(ClampUnit(x), Scalef)))}

\* fwrite on the output stream: the bytes arrive unless the write fails,
\* and wavgen.c does not look at what fwrite returns
Fwrite(bytes, ok) == IF ok THEN outBytes \o bytes ELSE outBytes

\* where the 13 fwrite calls of write_wav_header start in the header
HeaderWrites == {0, 4, 8, 12, 16, 20, 22, 24, 28, 32, 34, 36, 40}

----------------------------------------------------------------------------
(* The arguments drawn for wavgen                                          *)

MaxSamples == 2

Argcs == {6, 7, 8}
Rates == {7999, 8000, 192000, 192001}
\* seconds as m * 2^e: -1, 0, 2^-15 (rounds to no sample), 2^-13 and 2^-12
\* (one or two samples at 8000 Hz), 3 * 2^12 and 2^15 (more than 2^31 and
\* 2^32 samples at 192000 Hz)
Durations == {Fin(-1, 0), Fin(0, 0), Fin(1, -15), Fin(1, -13), Fin(1, -12),
              Fin(3, 12), Fin(1, 15)}
Freqs == {-1, 0, 440, 20000}
Amps == {FZero, Normal(1, -1), Normal(-2, 0), NaN}

\* double phase = 0.0, kept exactly and measured in cycles: the record
\* [a, b] stands for (a + b / D) / sample_rate cycles, that is 2 * pi times
\* as many radians, where D = sample_rate * seconds.  The rounding of the
\* double arithmetic is left out.
PhaseZero == [a |-> 0, b |-> 0]

\* x >= k * u * v for u > 0 and v > 0, without forming the product
CeilDiv(x, y) == (x + y - 1) \div y
GeProd(x, k, u, v) ==
    IF k = 0 THEN x >= 0
    ELSE IF k > 0 THEN x >= 0 /\ (x \div k) \div u >= v
    ELSE x >= 0 \/ CeilDiv(CeilDiv(-x, -k), u) <= v

\* p.b / D >= k, with D = sample_rate * seconds.m * 2^seconds.e
PhaseGe(p, k) ==
    IF seconds.e >= 0
    THEN GeProd(p.b, k, sample_rate, seconds.m * Pow2(seconds.e))
    ELSE GeProd(p.b * Pow2(-seconds.e), k, sample_rate, seconds.m)

\* phase += inc in iteration k.  sine: inc = two_pi * f1 / sample_rate;
\* chirp: inc = two_pi * ft / sample_rate with
\* ft = f1 + (f2 - f1) * ((k / sample_rate) / seconds)
Advance(p, md, k) ==
    CASE md = "sine"  -> [a |-> p.a + f1, b |-> p.b]
      [] md = "chirp" -> [a |-> p.a + f1, b |-> p.b + (f2 - f1) * k]
      [] OTHER        -> p

\* if (phase >= two_pi) phase -= two_pi;
Wrap(p) ==
    IF PhaseGe(p, sample_rate - p.a) THEN [p EXCEPT !.a = @ - sample_rate]
    ELSE p

GenIdle ==
    /\ gpc = "idle" /\ argc = 0 /\ mode = "" /\ sample_rate = 0
    /\ seconds = FZero /\ f1 = 0 /\ amp = FZero /\ f2 = 0
    /\ num_samples = WZero /\ n = 0 /\ phase = PhaseZero
    /\ outCreated = FALSE /\ outBytes = <<>> /\ outErr = FALSE /\ gstatus = -1

GenInit ==
    /\ gpc = "start"
    /\ argc \in Argcs
    /\ mode \in GenModes \cup {"square"}
    /\ sample_rate \in Rates
    /\ seconds \in Durations
    /\ f1 \in Freqs
    /\ amp \in Amps
    /\ f2 \in {0, 880}          \* argv[7], read only when argc >= 8
    /\ num_samples = WZero /\ n = 0 /\ phase = PhaseZero
    /\ outCreated = FALSE /\ outBytes = <<>> /\ outErr = FALSE /\ gstatus = -1

GenExit(code) == gpc' = "exit" /\ gstatus' = code

RangeOk == sample_rate >= MinRate /\ sample_rate <= MaxRate /\ seconds.m > 0

\* a chirp check that looks at f1 only
ChirpOkStartOnly == mode = "chirp" => argc >= 8 /\ f1 > 0

ChirpOk == mode = "chirp" => argc >= 8 /\ f1 > 0 /\ f2 > 0

\* if (argc < 7) { usage(argv[0]); return 1; }
GenUsage ==
    /\ gpc = "start" /\ argc < 7
    /\ GenExit(1)
    /\ UNCHANGED <<phase, argc, mode, sample_rate, seconds, f1, amp, f2, num_samples,
                   n, outCreated, outBytes, outErr>>
    /\ UNCHANGED <<codecVars, procVars>>

\* Invalid sample_rate or seconds.
GenRejectRange ==
    /\ gpc = "start" /\ argc >= 7 /\ ~RangeOk
    /\ GenExit(1)
    /\ UNCHANGED <<phase, argc, mode, sample_rate, seconds, f1, amp, f2, num_samples,
                   n, outCreated, outBytes, outErr>>
    /\ UNCHANGED <<codecVars, procVars>>

\* chirp mode requires f2; chirp frequencies must be > 0.
GenRejectChirp ==
    /\ gpc = "start" /\ argc >= 7 /\ RangeOk /\ ~ChirpOk
    /\ GenExit(1)
    /\ UNCHANGED <<phase, argc, mode, sample_rate, seconds, f1, amp, f2, num_samples,
                   n, outCreated, outBytes, outErr>>
    /\ UNCHANGED <<codecVars, procVars>>

\* Duration too short.
GenRejectShort ==
    /\ gpc = "start" /\ argc >= 7 /\ RangeOk /\ ChirpOk
    /\ WEq(NumSamples(seconds, sample_rate), WZero)
    /\ GenExit(1)
    /\ UNCHANGED <<phase, argc, mode, sample_rate, seconds, f1, amp, f2, num_samples,
                   n, outCreated, outBytes, outErr>>
    /\ UNCHANGED <<codecVars, procVars>>

\* FILE *f = fopen(outpath, "wb"): the file is created (or emptied), or
\* fopen fails and main returns 1
GenOpen ==
    /\ gpc = "start" /\ argc >= 7 /\ RangeOk /\ ChirpOk
    /\ ~WEq(NumSamples(seconds, sample_rate), WZero)
    /\ num_samples' = NumSamples(seconds, sample_rate)
    /\ \E ok \in BOOLEAN :
          IF ok THEN /\ outCreated' = TRUE
                     /\ gpc' = "header"
                     /\ UNCHANGED gstatus
                ELSE /\ GenExit(1)
                     /\ UNCHANGED outCreated
    /\ UNCHANGED <<phase, argc, mode, sample_rate, seconds, f1, amp, f2, n, outBytes,
                   outErr>>
    /\ UNCHANGED <<codecVars, procVars>>

\* write_wav_header(f, sample_rate, num_samples): all 13 writes arrive, or
\* one of them fails and leaves the stream in error and the rest of the
\* header unwritten
GenHeader ==
    /\ gpc = "header"
    /\ \E kept \in HeaderWrites \cup {HeaderLen} :
          /\ outBytes' = Fwrite(SubSeq(write_wav_header(sample_rate, num_samples),
                                       1, kept), TRUE)
          /\ outErr' = (kept < HeaderLen)
    /\ gpc' = "loop"
    /\ UNCHANGED <<phase, argc, mode, sample_rate, seconds, f1, amp, f2, num_samples,
                   n, outCreated, gstatus>>
    /\ UNCHANGED <<codecVars, procVars>>

\* one iteration of the sample loop in a known mode
GenSample ==
    /\ gpc = "loop" /\ WLt(WideOf(n), num_samples) /\ n < MaxSamples
    /\ mode \in GenModes
    /\ \E x \in SampleValues(mode, n, amp, f1) :
       \E s \in gen_float_to_s16(x) :
       \E ok \in {~outErr, FALSE} :
          /\ outBytes' = Fwrite(Bytes16(AsU16(s)), ok)
          /\ outErr' = ~ok
    /\ phase' = Wrap(Advance(phase, mode, n))
    /\ n' = n + 1
    /\ UNCHANGED <<gpc, argc, mode, sample_rate, seconds, f1, amp, f2,
                   num_samples, outCreated, gstatus>>
    /\ UNCHANGED <<codecVars, procVars>>

\* Unknown mode: fclose(f); return 1;
GenUnknownMode ==
    /\ gpc = "loop" /\ WLt(WideOf(n), num_samples)
    /\ mode \notin GenModes
    /\ GenExit(1)
    /\ UNCHANGED <<phase, argc, mode, sample_rate, seconds, f1, amp, f2, num_samples,
                   n, outCreated, outBytes, outErr>>
    /\ UNCHANGED <<codecVars, procVars>>

\* fclose(f); return 0;
GenFinish ==
    /\ gpc = "loop" /\ WEq(WideOf(n), num_samples)
    /\ GenExit(0)
    /\ UNCHANGED <<phase, argc, mode, sample_rate, seconds, f1, amp, f2, num_samples,
                   n, outCreated, outBytes, outErr>>
    /\ UNCHANGED <<codecVars, procVars>>

GenNext ==
    \/ GenUsage \/ GenRejectRange \/ GenRejectChirp \/ GenRejectShort
    \/ GenOpen \/ GenHeader \/ GenSample \/ GenUnknownMode \/ GenFinish

----------------------------------------------------------------------------
(* wavproc01.c: the input stream                                           *)

WAdd(a, b) ==
    Wide(a.hi + b.hi + (a.lo + b.lo) \div Half, (a.lo + b.lo) % Half)
WSubInt(w, k) ==                                    \* w - k, 0 <= k <= w
    IF w.lo >= k THEN Wide(w.hi, w.lo - k) ELSE Wide(w.hi - 1, w.lo + Half - k)
WOdd(w) == w.lo % 2 = 1

\* fread of k bytes at the stream position gives k bytes when k are left
CanRead(k) == finPos.hi = 0 /\ finPos.lo + k <= Len(finBytes)
\* the last byte offset a fread of k bytes at the position gets to
ReadEnd(k) ==
    IF CanRead(k) THEN finPos.lo + k
    ELSE IF finPos.hi = 0 /\ finPos.lo <= Len(finBytes) THEN Len(finBytes)
    ELSE 0

\* read_u16_le, read_u32_le and the 4-byte tag at byte offset i
U16At(b, i) == b[i + 1] + 256 * b[i + 2]
U32At(b, i) == Wide(U16At(b, i + 2), U16At(b, i))
TagAt(b, i) == SubSeq(b, i + 1, i + 4)

\* a fmt check without the test of the channel count
FmtAcceptedAnyChannels(audio_format, channels, bits_per_sample) ==
    audio_format = 1 /\ bits_per_sample = 16

\* if (audio_format != 1) die; if (channels != 1) die; if (bits != 16) die
FmtAccepted(audio_format, channels, bits_per_sample) ==
    audio_format = 1 /\ channels = 1 /\ bits_per_sample = 16

\* the stream position after the fmt branch, entered at pos with the 8-byte
\* chunk header read: 16 bytes are consumed and the rest is skipped
AfterFmt(pos, chunk_size) ==
    LET consumed == 16
    IN  IF WLt(WideOf(consumed), chunk_size)
        THEN WAdd(WideOf(pos + 8 + consumed), WSubInt(chunk_size, consumed))
        ELSE WideOf(pos + 8 + consumed)

\* the stream position after the branch that skips an unknown chunk
AfterSkip(pos, chunk_size) ==
    LET skip == IF WOdd(chunk_size) THEN WAddInt(chunk_size, 1) ELSE chunk_size
    IN  WAdd(WideOf(pos + 8), skip)

NoInfo == [sample_rate |-> WZero, channels |-> 0, bits_per_sample |-> 0,
           data_bytes |-> WZero, data_offset |-> WZero]

\* the 44 bytes write_wav_header_pcm16_mono hands to fwrite, in order
write_wav_header_pcm16_mono(rate, data_bytes) ==
    LET channels == 1
        bits_per_sample == 16
        block_align == channels * (bits_per_sample \div 8)
        byte_rate == U32(WMulInt(rate, block_align))
        riff_size == U32(WAddInt(data_bytes, 36))
    IN  RIFF \o Bytes32(riff_size) \o WAVE
        \o FMT \o Bytes32(WideOf(16))
        \o Bytes16(1) \o Bytes16(channels)
        \o Bytes32(rate) \o Bytes32(byte_rate)
        \o Bytes16(block_align) \o Bytes16(bits_per_sample)
        \o DATA \o Bytes32(data_bytes)

\* uint32_t total_samples = in.data_bytes / 2
total_samples == WHalf(info.data_bytes)

ProcModes == {"gain", "lpf"}

\* argv[4] as read by strtod: the gain, and the cutoff in Hz
Gains == {FOne, Normal(2, 0), NaN}
Cutoffs == {-1, 1000}
\* y1 + a * (x - y1) with a = (float)(dt / (rc + dt)) is not computed: any
\* of these may come out
LpfValues == {FZero, Normal(1, -1)}

----------------------------------------------------------------------------
(* wavproc01.c: main                                                       *)

ProcExit(code) == ppc' = "exit" /\ pstatus' = code
die == ProcExit(1)

ProcIdle ==
    /\ ppc = "idle" /\ pargc = 0 /\ pmode = ""
    /\ inDesc = <<>> /\ finBytes = <<>> /\ finOpen = FALSE /\ finPos = WZero
    /\ info = NoInfo /\ got_fmt = FALSE /\ got_data = FALSE
    /\ foutCreated = FALSE /\ foutBytes = <<>>
    /\ g = FZero /\ y1 = FZero /\ pn = 0 /\ pstatus = -1
    /\ scanEnd = 0 /\ chunkReads = {}

\* if (argc < 2) usage(); if (mode is neither gain nor lpf) usage();
\* if (argc != 5) usage();          usage() ends in exit(2)
ProcUsage ==
    /\ ppc = "start"
    /\ pargc < 2 \/ pmode \notin ProcModes \/ pargc # 5
    /\ ProcExit(2)
    /\ UNCHANGED <<pargc, pmode, inDesc, finBytes, finOpen, finPos, info,
                   got_fmt, got_data, foutCreated, foutBytes, g, y1, pn,
                   scanEnd, chunkReads>>
    /\ UNCHANGED <<codecVars, genVars>>

\* FILE *fin = fopen(inpath, "rb"); if (!fin) die(...)
ProcOpenIn ==
    /\ ppc = "start"
    /\ pargc = 5 /\ pmode \in ProcModes
    /\ \E ok \in BOOLEAN :
          IF ok THEN /\ finOpen' = TRUE /\ ppc' = "envelope"
                     /\ UNCHANGED pstatus
                ELSE /\ die /\ UNCHANGED finOpen
    /\ UNCHANGED <<pargc, pmode, inDesc, finBytes, finPos, info,
                   got_fmt, got_data, foutCreated, foutBytes, g, y1, pn,
                   scanEnd, chunkReads>>
    /\ UNCHANGED <<codecVars, genVars>>

\* read_wav_header up to its loop: "RIFF", the riff size, "WAVE"
ReadEnvelope ==
    /\ ppc = "envelope"
    /\ IF /\ CanRead(12)
          /\ TagAt(finBytes, 0) = RIFF
          /\ TagAt(finBytes, 8) = WAVE
       THEN /\ finPos' = WideOf(12)
            /\ scanEnd' = 12
            /\ ppc' = "chunks"
            /\ UNCHANGED pstatus
       ELSE /\ die
            /\ scanEnd' = (IF CanRead(4) /\ TagAt(finBytes, 0) # RIFF
                           THEN 4 ELSE ReadEnd(12))
            /\ UNCHANGED finPos
    /\ UNCHANGED <<pargc, pmode, inDesc, finBytes, finOpen, info,
                   got_fmt, got_data, foutCreated, foutBytes, g, y1, pn,
                   chunkReads>>
    /\ UNCHANGED <<codecVars, genVars>>

Scanning == ppc = "chunks" /\ (~got_fmt \/ ~got_data)

\* the tag or the chunk size cannot be read: Unexpected EOF in chunks
ChunkEOF ==
    /\ Scanning /\ ~CanRead(8)
    /\ die
    /\ scanEnd' = (IF ReadEnd(8) > scanEnd THEN ReadEnd(8) ELSE scanEnd)
    /\ chunkReads' = chunkReads \cup {finPos}
    /\ UNCHANGED <<pargc, pmode, inDesc, finBytes, finOpen, finPos, info,
                   got_fmt, got_data, foutCreated, foutBytes, g, y1, pn>>
    /\ UNCHANGED <<codecVars, genVars>>

\* the "fmt " branch
ChunkFmt ==
    /\ Scanning /\ CanRead(8)
    /\ TagAt(finBytes, finPos.lo) = FMT
    /\ chunkReads' = chunkReads \cup {finPos}
    /\ LET pos == finPos.lo
           chunk_size == U32At(finBytes, pos + 4)
       IN  IF /\ CanRead(24)
              /\ FmtAccepted(U16At(finBytes, pos + 8), U16At(finBytes, pos + 10),
                             U16At(finBytes, pos + 22))
           THEN /\ info' = [info EXCEPT
                              !.channels = U16At(finBytes, pos + 10),
                              !.sample_rate = U32At(finBytes, pos + 12),
                              !.bits_per_sample = U16At(finBytes, pos + 22)]
                /\ scanEnd' = pos + 24
                /\ \E ok \in {TRUE, ~WLt(WideOf(16), chunk_size)} :
                      IF ok THEN /\ finPos' = AfterFmt(pos, chunk_size)
                                 /\ got_fmt' = TRUE
                                 /\ UNCHANGED <<ppc, pstatus>>
                            ELSE /\ die        \* fseek failed
                                 /\ UNCHANGED <<finPos, got_fmt>>
           ELSE /\ die
                /\ scanEnd' = ReadEnd(24)
                /\ UNCHANGED <<finPos, info, got_fmt>>
    /\ UNCHANGED <<pargc, pmode, inDesc, finBytes, finOpen, got_data,
                   foutCreated, foutBytes, g, y1, pn>>
    /\ UNCHANGED <<codecVars, genVars>>

\* the "data" branch: the payload is not skipped
ChunkData ==
    /\ Scanning /\ CanRead(8)
    /\ TagAt(finBytes, finPos.lo) = DATA
    /\ chunkReads' = chunkReads \cup {finPos}
    /\ info' = [info EXCEPT !.data_bytes = U32At(finBytes, finPos.lo + 4),
                            !.data_offset = WideOf(finPos.lo + 8)]
    /\ finPos' = WideOf(finPos.lo + 8)
    /\ scanEnd' = finPos.lo + 8
    /\ got_data' = TRUE
    /\ UNCHANGED <<ppc, pstatus, pargc, pmode, inDesc, finBytes, finOpen,
                   got_fmt, foutCreated, foutBytes, g, y1, pn>>
    /\ UNCHANGED <<codecVars, genVars>>

\* any other tag: skip the chunk, and one byte more when its size is odd
ChunkSkip ==
    /\ Scanning /\ CanRead(8)
    /\ TagAt(finBytes, finPos.lo) \notin {FMT, DATA}
    /\ chunkReads' = chunkReads \cup {finPos}
    /\ scanEnd' = finPos.lo + 8
    /\ \E ok \in BOOLEAN :
          IF ok THEN /\ finPos' = AfterSkip(finPos.lo, U32At(finBytes, finPos.lo + 4))
                     /\ UNCHANGED <<ppc, pstatus>>
                ELSE /\ die                    \* fseek skip failed
                     /\ UNCHANGED finPos
    /\ UNCHANGED <<pargc, pmode, inDesc, finBytes, finOpen, info, got_fmt,
                   got_data, foutCreated, foutBytes, g, y1, pn>>
    /\ UNCHANGED <<codecVars, genVars>>

\* read_wav_header returns; FILE *fout = fopen(outpath, "wb")
ProcOpenOut ==
    /\ ppc = "chunks" /\ got_fmt /\ got_data
    /\ \E ok \in BOOLEAN :
          IF ok THEN /\ foutCreated' = TRUE /\ ppc' = "header"
                     /\ UNCHANGED pstatus
                ELSE /\ die /\ UNCHANGED foutCreated
    /\ UNCHANGED <<pargc, pmode, inDesc, finBytes, finOpen, finPos, info,
                   got_fmt, got_data, foutBytes, g, y1, pn, scanEnd,
                   chunkReads>>
    /\ UNCHANGED <<codecVars, genVars>>

\* write_wav_header_pcm16_mono(fout, in.sample_rate, in.data_bytes), where
\* a failing fwrite ends the process; then fseek(fin, in.data_offset)
ProcHeader ==
    /\ ppc = "header"
    /\ \E kept \in HeaderWrites \cup {HeaderLen} :
          /\ foutBytes' = SubSeq(write_wav_header_pcm16_mono(info.sample_rate,
                                                             info.data_bytes),
                                 1, kept)
          /\ IF kept = HeaderLen
             THEN \E ok \in BOOLEAN :
                     IF ok THEN /\ finPos' = info.data_offset
                                /\ ppc' = "mode"
                                /\ UNCHANGED pstatus
                           ELSE /\ die         \* fseek to data failed
                                /\ UNCHANGED finPos
             ELSE die /\ UNCHANGED finPos
    /\ UNCHANGED <<pargc, pmode, inDesc, finBytes, finOpen, info, got_fmt,
                   got_data, foutCreated, g, y1, pn, scanEnd, chunkReads>>
    /\ UNCHANGED <<codecVars, genVars>>

\* float g = (float)strtod(argv[4], NULL)
GainStart ==
    /\ ppc = "mode" /\ pmode = "gain"
    /\ g' \in Gains
    /\ ppc' = "gain"
    /\ UNCHANGED <<pstatus, pargc, pmode, inDesc, finBytes, finOpen, finPos,
                   info, got_fmt, got_data, foutCreated, foutBytes, y1, pn,
                   scanEnd, chunkReads>>
    /\ UNCHANGED <<codecVars, genVars>>

\* double cutoff = strtod(argv[4], NULL); if (cutoff <= 0.0) die(...)
LpfStart ==
    /\ ppc = "mode" /\ pmode = "lpf"
    /\ \E cutoff \in Cutoffs :
          IF cutoff <= 0 THEN die ELSE ppc' = "lpf" /\ UNCHANGED pstatus
    /\ y1' = FZero
    /\ UNCHANGED <<pargc, pmode, inDesc, finBytes, finOpen, finPos, info,
                   got_fmt, got_data, foutCreated, foutBytes, g, pn,
                   scanEnd, chunkReads>>
    /\ UNCHANGED <<codecVars, genVars>>

\* one iteration of a sample loop: read_u16_le, the transform, write_u16_le
Sample(out) ==
    /\ WLt(WideOf(pn), total_samples)
    /\ IF CanRead(2)
       THEN \E y \in out : \E ok \in BOOLEAN :
               IF ok THEN /\ foutBytes' = foutBytes \o Bytes16(AsU16(y))
                          /\ finPos' = WideOf(finPos.lo + 2)
                          /\ pn' = pn + 1
                          /\ UNCHANGED <<ppc, pstatus>>
                     ELSE /\ die        \* write_u16_le: fwrite failed
                          /\ UNCHANGED <<foutBytes, finPos, pn>>
       ELSE /\ die                      \* read_u16_le: fread failed
            /\ UNCHANGED <<foutBytes, finPos, pn>>
    /\ UNCHANGED <<pargc, pmode, inDesc, finBytes, finOpen, info, got_fmt,
                   got_data, foutCreated, g, scanEnd, chunkReads>>

\* the sample read at the stream position
SampleIn == AsS16(U16At(finBytes, finPos.lo))

GainSample ==
    /\ ppc = "gain"
    /\ Sample(IF CanRead(2)
              THEN float_to_s16(FMul(s16_to_float(SampleIn), g)) ELSE {})
    /\ UNCHANGED y1
    /\ UNCHANGED <<codecVars, genVars>>

LpfSample ==
    /\ ppc = "lpf"
    /\ \E y \in LpfValues :
          /\ y1' = y
          /\ Sample(float_to_s16(y))
    /\ UNCHANGED <<codecVars, genVars>>

\* fclose(fin); fclose(fout); return 0;
ProcFinish ==
    /\ ppc \in {"gain", "lpf"}
    /\ WEq(WideOf(pn), total_samples)
    /\ ProcExit(0)
    /\ UNCHANGED <<pargc, pmode, inDesc, finBytes, finOpen, finPos, info,
                   got_fmt, got_data, foutCreated, foutBytes, g, y1, pn,
                   scanEnd, chunkReads>>
    /\ UNCHANGED <<codecVars, genVars>>

ProcNext ==
    \/ ProcUsage \/ ProcOpenIn \/ ReadEnvelope
    \/ ChunkEOF \/ ChunkFmt \/ ChunkData \/ ChunkSkip
    \/ ProcOpenOut \/ ProcHeader \/ GainStart \/ LpfStart
    \/ GainSample \/ LpfSample \/ ProcFinish

----------------------------------------------------------------------------
(* The input files drawn for wavproc01                                     *)
(* A file is described by its two envelope tags, its chunks and the number *)
(* of bytes cut off its end; a chunk by its tag, its declared size and the *)
(* bytes that follow the size field (the pad byte of an odd size among     *)
(* them).                                                                  *)

MaxChunks == 3

LIST == <<76, 73, 83, 84>>
RIFX == <<82, 73, 70, 88>>
AVI  == <<65, 86, 73, 32>>

InRate == 8000

Chunk(tag, size, body) == [tag |-> tag, size |-> size, body |-> body]
Fill(k, b) == [i \in 1 .. k |-> b]
Pad(size) == Fill(size % 2, 0)

FmtBody(format, channels, bits) ==
    Bytes16(format) \o Bytes16(channels) \o Bytes32(WideOf(InRate))
    \o Bytes32(WideOf(InRate * channels * (bits \div 8)))
    \o Bytes16(channels * (bits \div 8)) \o Bytes16(bits)
FmtChunk(size, format, channels, bits) ==
    Chunk(FMT, size, FmtBody(format, channels, bits) \o Fill(size - 16, 0)
                     \o Pad(size))
DataChunk(payload) == Chunk(DATA, Len(payload), payload \o Pad(Len(payload)))
OtherChunk(size) == Chunk(LIST, size, Fill(size, 9) \o Pad(size))

S16Bytes(s) == Bytes16(AsU16(s))

FmtChunks ==
    {FmtChunk(16, 1, 1, 16), FmtChunk(18, 1, 1, 16), FmtChunk(17, 1, 1, 16),
     FmtChunk(16, 3, 1, 16), FmtChunk(16, 1, 2, 16), FmtChunk(16, 1, 1, 8)}
DataChunks ==
    {DataChunk(<<>>), DataChunk(S16Bytes(20000)),
     DataChunk(S16Bytes(20000) \o S16Bytes(S16Min)),
     DataChunk(S16Bytes(20000) \o <<7>>)}
OtherChunks == {OtherChunk(1), OtherChunk(2)}
Chunks == FmtChunks \cup DataChunks \cup OtherChunks

ChunkBytes(c) == c.tag \o Bytes32(WideOf(c.size)) \o c.body
RECURSIVE Flat(_)
Flat(chunks) ==
    IF chunks = <<>> THEN <<>>
    ELSE ChunkBytes(Head(chunks)) \o Flat(Tail(chunks))

Desc(riff, wave, chunks, cut) ==
    [riff |-> riff, wave |-> wave, chunks |-> chunks, cut |-> cut]
NoDesc == Desc(<<>>, <<>>, <<>>, 0)
WholeFile(d) ==
    d.riff \o Bytes32(WideOf(4 + Len(Flat(d.chunks)))) \o d.wave
    \o Flat(d.chunks)
FileOf(d) == SubSeq(WholeFile(d), 1, Len(WholeFile(d)) - d.cut)

Plain == <<FmtChunk(16, 1, 1, 16), DataChunk(S16Bytes(20000))>>

Descs ==
    \* whole files with a good envelope and any chunks in any order
    {Desc(RIFF, WAVE, chunks, 0) :
        chunks \in UNION {[1 .. k -> Chunks] : k \in 1 .. MaxChunks}}
    \* a bad envelope
    \cup {Desc(RIFX, WAVE, Plain, 0), Desc(RIFF, AVI, Plain, 0)}
    \* files that end early
    \cup {Desc(RIFF, WAVE, chunks, cut) :
            chunks \in {Plain, <<OtherChunk(1)>> \o Plain},
            cut \in 1 .. (12 + Len(Flat(Plain)))}

ProcInit ==
    /\ ppc = "start"
    /\ \/ pargc = 5 /\ pmode \in ProcModes /\ inDesc \in Descs
       \/ /\ pargc \in {1, 4, 5, 6} /\ pmode \in ProcModes \cup {"hpf"}
          /\ pargc # 5 \/ pmode \notin ProcModes
          /\ inDesc = Desc(RIFF, WAVE, Plain, 0)
    /\ finBytes = FileOf(inDesc)
    /\ finOpen = FALSE /\ finPos = WZero
    /\ info = NoInfo /\ got_fmt = FALSE /\ got_data = FALSE
    /\ foutCreated = FALSE /\ foutBytes = <<>>
    /\ g = FZero /\ y1 = FZero /\ pn = 0 /\ pstatus = -1
    /\ scanEnd = 0 /\ chunkReads = {}

----------------------------------------------------------------------------
(* The codec driven alone: decode a sample, then encode it again.          *)

CodecIdle == cpc = "idle" /\ cs = 0 /\ cx = FZero /\ cy = 0

CodecInit ==
    /\ cpc = "decode"
    /\ cs \in Int16
    /\ cx = FZero
    /\ cy = 0

Decode ==
    /\ cpc = "decode"
    /\ cx' = s16_to_float(cs)
    /\ cpc' = "encode"
    /\ UNCHANGED <<cs, cy, genVars, procVars>>

Encode ==
    /\ cpc = "encode"
    /\ cy' \in float_to_s16(cx)
    /\ cpc' = "done"
    /\ UNCHANGED <<cs, cx, genVars, procVars>>

CodecNext == Decode \/ Encode

CodecAloneInit == CodecInit /\ GenIdle /\ ProcIdle
SpecCodec == CodecAloneInit /\ [][CodecNext]_vars

\* C1 (as stated): for every 16-bit s, float_to_s16(s16_to_float(s)) = s,
\* s = -32768 included
C1_RoundTripAll == cpc = "done" => cy = cs

\* C1 (amended): the round trip gives s back for every s in -32767..32767,
\* and gives -32767 for s = -32768, whose decoded value is -1.0
C1_RoundTrip ==
    /\ cpc # "decode" /\ cs = S16Min => cx = FMinusOne
    /\ cpc = "done" => cy = (IF cs = S16Min THEN -Scale ELSE cs)

C1_Witness == cpc = "done" /\ cs = S16Min /\ cx = FMinusOne /\ cy = -32767

----------------------------------------------------------------------------
(* wavgen run alone                                                        *)

GenAloneInit == GenInit /\ CodecIdle /\ ProcIdle
SpecGen == GenAloneInit /\ [][GenNext]_vars

\* the output file has not been touched
GenNoOutput == ~outCreated /\ outBytes = <<>>

\* round(seconds x sample_rate), not cut to 32 bits
RoundedSamples ==
    IF seconds.m > 0 THEN llround_product(seconds, sample_rate) ELSE WZero

\* C5 (as stated): for every accepted request N = round(seconds x
\* sample_rate) samples are written, the header's payload length is 2 x N
\* and its total-size field is 36 + 2 x N
C5_DeclaredSizesMatch ==
    /\ gpc \in {"loop", "exit"} /\ Len(outBytes) >= HeaderLen =>
          /\ WEq(num_samples, RoundedSamples)
          /\ WEq(U32At(outBytes, 40), WMulInt(RoundedSamples, 2))
          /\ WEq(U32At(outBytes, 4), WAddInt(WMulInt(RoundedSamples, 2), 36))
    /\ gpc = "exit" /\ gstatus = 0 /\ ~outErr =>
          WEq(WideOf(Len(outBytes) - HeaderLen), WMulInt(RoundedSamples, 2))

\* C7 (as stated): wavgen exits with 1 on every validation and I/O failure,
\* and with 0 only when the whole header and all N samples were written
C7_ExitStatus ==
    gpc = "exit" =>
        /\ gstatus \in {0, 1}
        /\ outErr => gstatus = 1
        /\ gstatus = 0 =>
              /\ WEq(WideOf(n), num_samples)
              /\ Len(outBytes) = HeaderLen + 2 * n

\* the requests C8 calls invalid whatever the mode
InvalidAnyMode ==
    \/ sample_rate < 8000 \/ sample_rate > 192000
    \/ seconds.m <= 0
    \/ mode = "chirp" /\ argc < 8
    \/ WEq(RoundedSamples, WZero)

GenRejected ==
    /\ GenNoOutput
    /\ gpc \in {"start", "exit"}
    /\ gpc = "exit" => gstatus = 1

\* C8 (as stated): every invalid request, a non-positive frequency in any
\* mode among them, is rejected with status 1 before the output file is
\* created and before any byte is written
C8_InvalidRejectedAnyFrequency ==
    gpc # "idle" /\ argc >= 7
    /\ (InvalidAnyMode \/ f1 <= 0 \/ (mode = "chirp" /\ f2 <= 0))
    => GenRejected

\* C8 (amended): the same, where a non-positive frequency makes a request
\* invalid in chirp mode only
C8_InvalidRejected ==
    gpc # "idle" /\ argc >= 7
    /\ (InvalidAnyMode \/ (mode = "chirp" /\ (f1 <= 0 \/ f2 <= 0)))
    => GenRejected

C8_Witness ==
    /\ gpc = "exit" /\ gstatus = 1 /\ GenNoOutput
    /\ mode = "chirp" /\ argc = 8 /\ f1 > 0 /\ f2 <= 0
    /\ sample_rate = 8000 /\ seconds = Fin(1, -12)

\* the phase is at least 0 and less than one cycle
InCycle(p) == PhaseGe(p, -p.a) /\ ~PhaseGe(p, sample_rate - p.a)

\* C11 (as stated): for every accepted request in sine or chirp mode the
\* phase starts at 0 and, after each sample's increment and wrap, lies in
\* [0, 2 * pi), that is in [0, 1) cycles at the start of every sample
C11_PhaseInRange ==
    gpc = "loop" /\ mode \in {"sine", "chirp"} =>
        /\ n = 0 => phase = PhaseZero
        /\ InCycle(phase)

----------------------------------------------------------------------------
(* wavproc01 run alone                                                     *)

ProcAloneInit == ProcInit /\ CodecIdle /\ GenIdle
SpecProc == ProcAloneInit /\ [][ProcNext]_vars

\* what the description of the input file says
GoodEnvelope(d) == d.riff = RIFF /\ d.wave = WAVE
ChunkStart(d, i) == 12 + Len(Flat(SubSeq(d.chunks, 1, i - 1)))
Tagged(d, tag) == {i \in 1 .. Len(d.chunks) : d.chunks[i].tag = tag}
First(S) == IF S = {} THEN 0 ELSE CHOOSE i \in S : \A j \in S : i <= j
FirstFmt(d) == First(Tagged(d, FMT))
FirstData(d) == First(Tagged(d, DATA))
DataHeaderEnd(d) == ChunkStart(d, FirstData(d)) + 8
BadFmt(c) ==
    /\ c.tag = FMT
    /\ U16At(c.body, 0) # 1 \/ U16At(c.body, 2) # 1 \/ U16At(c.body, 14) # 16
\* chunk i is met by a scan that walks the chunks before it one by one
WalkedTo(d, i) ==
    \A j \in 1 .. i - 1 :
        /\ d.chunks[j].tag # DATA
        /\ d.chunks[j].tag = FMT => d.chunks[j].size % 2 = 0 /\ ~BadFmt(d.chunks[j])

\* the input fails header validation: a bad envelope tag, a fmt chunk with
\* a format, channel count or bit depth that is not allowed, or a file that
\* ends before the data chunk's header does
FailsValidation(d) ==
    \/ ~GoodEnvelope(d)
    \/ \E i \in 1 .. Len(d.chunks) : BadFmt(d.chunks[i]) /\ WalkedTo(d, i)
    \/ /\ FirstData(d) # 0 /\ WalkedTo(d, FirstData(d))
       /\ Len(FileOf(d)) < DataHeaderEnd(d)

\* C3: when the input fails header validation the process ends with a
\* status other than 0 and the output file is never opened or written; the
\* output is opened only after read_wav_header has returned
C3_NoOutputOnBadHeader ==
    /\ ppc # "idle" /\ FailsValidation(inDesc) =>
          /\ ~foutCreated /\ foutBytes = <<>>
          /\ ppc = "exit" => pstatus # 0
    /\ foutCreated \/ foutBytes # <<>> => got_fmt /\ got_data

C3_Witness ==
    /\ ppc = "exit" /\ pstatus = 1 /\ finOpen /\ ~foutCreated
    /\ inDesc.chunks = <<OtherChunk(1), FmtChunk(16, 1, 2, 16),
                         DataChunk(S16Bytes(20000))>>
    /\ scanEnd = ChunkStart(inDesc, 2) + 24

\* C6 (as stated): on successful completion the output has the input's
\* sample rate, one channel and 16 bits, as many samples as the input, and a
\* header whose payload length is the number of payload bytes written, with
\* the total-size field 36 more
C6_OutputMatchesInput ==
    ppc = "exit" /\ pstatus = 0 =>
        /\ Len(foutBytes) >= HeaderLen
        /\ WEq(U32At(foutBytes, 24), WideOf(InRate))
        /\ U16At(foutBytes, 22) = 1
        /\ U16At(foutBytes, 34) = 16
        /\ WEq(WideOf(pn), WHalf(info.data_bytes))
        /\ WEq(U32At(foutBytes, 40), WideOf(Len(foutBytes) - HeaderLen))
        /\ WEq(U32At(foutBytes, 4), WideOf(36 + Len(foutBytes) - HeaderLen))

\* C9 (as stated): with a good envelope and a fmt and a data chunk in any
\* order, read_wav_header reads no byte after the 8-byte header of the data
\* chunk
C9_NoReadPastDataHeader ==
    /\ ppc # "idle" /\ GoodEnvelope(inDesc) /\ inDesc.cut = 0
    /\ FirstFmt(inDesc) # 0 /\ FirstData(inDesc) # 0
    => scanEnd <= DataHeaderEnd(inDesc)

\* every chunk is padded to an even length, and a fmt chunk declares at
\* least 16 bytes
WellFormed(d) ==
    /\ GoodEnvelope(d) /\ d.cut = 0
    /\ \A i \in 1 .. Len(d.chunks) :
          LET c == d.chunks[i]
          IN  /\ Len(c.body) = c.size + (c.size % 2)
              /\ c.tag = FMT => c.size >= 16

\* C10 (as stated): in a well-formed file where a fmt chunk precedes the
\* data chunk, every chunk read begins at the start of a chunk, and the
\* length and the offset returned are the data chunk's declared length and
\* the position right after its length field
C10_ChunkReadsAligned ==
    /\ ppc # "idle" /\ WellFormed(inDesc)
    /\ FirstFmt(inDesc) # 0 /\ FirstFmt(inDesc) < FirstData(inDesc)
    => /\ chunkReads \subseteq
              {WideOf(ChunkStart(inDesc, i)) : i \in 1 .. Len(inDesc.chunks)}
       /\ got_fmt /\ got_data =>
              /\ WEq(info.data_bytes,
                     WideOf(inDesc.chunks[FirstData(inDesc)].size))
              /\ WEq(info.data_offset, WideOf(DataHeaderEnd(inDesc)))

----------------------------------------------------------------------------
(* Either tool run alone                                                   *)

ToolsInit == GenAloneInit \/ ProcAloneInit
ToolsNext == GenNext \/ ProcNext
SpecTools == ToolsInit /\ [][ToolsNext]_vars

\* C4 (as stated): in both tools a usage error (too few or the wrong number
\* of arguments, or a mode that is not recognized) ends the process with a
\* status other than 0 before any I/O: no file is opened, created or written
C4_UsageErrorNoIO ==
    /\ gpc # "idle" /\ (argc < 7 \/ mode \notin GenModes) =>
          /\ GenNoOutput
          /\ gpc = "exit" => gstatus # 0
    /\ ppc # "idle" /\ (pargc # 5 \/ pmode \notin ProcModes) =>
          /\ ~finOpen /\ ~foutCreated /\ foutBytes = <<>>
          /\ ppc = "exit" => pstatus # 0

----------------------------------------------------------------------------
(* wavgen, then wavproc01 in gain mode on the file wavgen wrote            *)

\* wavproc gain <the generated file> <out.wav> <gain>
Handoff ==
    /\ gpc = "exit" /\ gstatus = 0
    /\ ppc = "idle"
    /\ ppc' = "start" /\ pargc' = 5 /\ pmode' = "gain"
    /\ finBytes' = outBytes
    /\ UNCHANGED <<finOpen, finPos, info, got_fmt, got_data, foutCreated,
                   foutBytes, g, y1, pn, pstatus, inDesc, scanEnd, chunkReads>>
    /\ UNCHANGED <<codecVars, genVars>>

PipeNext ==
    \/ GenNext \/ Handoff
    \/ ProcOpenIn \/ ReadEnvelope \/ ChunkEOF \/ ChunkFmt \/ ChunkData
    \/ ProcOpenOut \/ ProcHeader \/ GainStart \/ GainSample \/ ProcFinish

SpecPipe == GenAloneInit /\ [][PipeNext]_vars

Payload(bytes) == SubSeq(bytes, HeaderLen + 1, Len(bytes))

\* C2 (as stated): gain mode with factor 1.0 copies the payload of any
\* generated file byte for byte
C2_UnitGainIdentity ==
    ppc = "exit" /\ pstatus = 0 /\ g = FOne =>
        Payload(foutBytes) = Payload(finBytes)

=============================================================================
